---- MODULE Spec2Model ----
(***************************************************************************)
(* The filter-and-aggregate pipeline of viso.py (a Streamlit script).      *)
(*                                                                         *)
(* The script is run from top to bottom once at start-up and once more     *)
(* after every widget interaction.  The state is the loaded table `df`,    *)
(* the values the widgets hold between runs, and the script variables the  *)
(* last run assigned.  A data frame derived from `df` by row selection is  *)
(* the set of the row numbers it keeps (pandas keeps the rows' order).     *)
(* The columns distribution_channel, reserved_room_type and adr, the       *)
(* preview's number_input value and the chart radio button only feed the   *)
(* rendering and are left out; what is modelled of lines 77-117 is the row *)
(* set each chart is computed from.                                        *)
(***************************************************************************)
EXTENDS Integers, Sequences, FiniteSets, TLC

VARIABLES df, date_range, country_options, selected_country, hotel_options,
          hotel_type, show_overview, df_pivot, df_filtered, resort_guests,
          city_guests, canceled, temp_melt, df_box, err

\* df                line 7-11   the loaded table, a sequence of rows
\* date_range        line 27     the slider's (min_month, max_month)
\* country_options   line 35     the options the country selectbox was given
\* selected_country  line 36
\* hotel_options     line 45     the options the hotel selectbox was given
\* hotel_type        line 45
\* show_overview     line 52     the checkbox
\* df_pivot          line 23-24  the map's rows, from the whole table
\* df_filtered       line 32-49  the filtered view, as lines 51-103 read it
\* resort_guests, city_guests  line 66-67  <<month, count>> series
\* canceled          line 78     the view's canceled rows
\* temp_melt         line 100    rows (market_segment, hotel, guests)
\* df_box            line 115    df_filtered as reassigned for the box plot
\* err               the exception that ended the last run, or "none"
vars == <<df, date_range, country_options, selected_country, hotel_options,
          hotel_type, show_overview, df_pivot, df_filtered, resort_guests,
          city_guests, canceled, temp_melt, df_box, err>>

(***************************************************************************)
(* Bounds of the input tables.                                             *)
(***************************************************************************)
\* A table is built from at most MaxRecords bookings ...
MaxRecords == 3
\* ... each occurring Copies times (the base sequence repeated),
Copies == 3
\* with arrival months 1..MaxMonth.
MaxMonth == 3

(***************************************************************************)
(* Values of the script.                                                   *)
(***************************************************************************)
CityHotel == "City Hotel"
ResortHotel == "Resort Hotel"
All == "All"
\* A missing country (read_csv's NaN).  NaN == x is False for every x,
\* NaN included; see Eq.
NaN == "nan"
\* A missing count in a numeric column (NaN), which no count equals.
NaNCount == -1
\* number_input's min_value and value.
MinRows == 5

Hotels == {CityHotel, ResortHotel}

\* The booking every other booking of the input tables is a variant of.
RefBooking(h) ==
  [hotel |-> h, arrival_month |-> 1, country |-> "PRT", is_canceled |-> 0,
   market_segment |-> "Direct"]

\* The bookings of hotel h that differ from RefBooking(h) in at most one
\* column: an arrival in the last month, another or no country, canceled,
\* another segment.
Variants(h) ==
  LET b == RefBooking(h)
  IN  <<b, [b EXCEPT !.arrival_month = MaxMonth],
        [b EXCEPT !.country = "GBR"], [b EXCEPT !.country = NaN],
        [b EXCEPT !.is_canceled = 1],
        [b EXCEPT !.market_segment = "Online TA"]>>

Catalogue == Variants(CityHotel) \o Variants(ResortHotel)

Min(S) == CHOOSE x \in S : \A y \in S : x <= y
Max(S) == CHOOSE x \in S : \A y \in S : x >= y

\* The bookings of the catalogue at the positions S, in catalogue order.
RECURSIVE Pick(_)
Pick(S) == IF S = {} THEN <<>> ELSE <<Catalogue[Min(S)]>> \o Pick(S \ {Min(S)})

Reverse(s) == [k \in 1..Len(s) |-> s[Len(s) + 1 - k]]

RECURSIVE Repeat(_, _)
Repeat(s, n) == IF n = 0 THEN <<>> ELSE s \o Repeat(s, n - 1)

\* The input tables: 1..MaxRecords different bookings of the catalogue, in
\* catalogue order or in reverse order, the whole repeated Copies times.
Stores ==
  LET picks == {Pick(S) : S \in {T \in SUBSET (1..Len(Catalogue)) :
                                   Cardinality(T) \in 1..MaxRecords}}
  IN  {Repeat(b, Copies) : b \in picks \cup {Reverse(q) : q \in picks}}

(***************************************************************************)
(* pandas helpers.                                                         *)
(***************************************************************************)
\* Series == scalar: element-wise equality, False wherever either side is NaN.
Eq(a, b) == a # NaN /\ b # NaN /\ a = b

\* Series.unique(): the distinct values of column col over the rows, in order
\* of first appearance; NaN is one of them.
RECURSIVE UniqueFrom(_, _, _, _, _)
UniqueFrom(store, rows, col, i, acc) ==
  IF i > Len(store) THEN acc
  ELSE LET v == store[i][col]
       IN  IF i \in rows /\ \A k \in 1..Len(acc) : acc[k] # v
           THEN UniqueFrom(store, rows, col, i + 1, Append(acc, v))
           ELSE UniqueFrom(store, rows, col, i + 1, acc)

Unique(store, rows, col) == UniqueFrom(store, rows, col, 1, <<>>)

Range(s) == {s[k] : k \in 1..Len(s)}

\* The number of rows whose column col holds v.
Count(store, rows, col, v) == Cardinality({i \in rows : store[i][col] = v})

\* Insert pair p into seq (sorted by count, descending) behind every pair of
\* the same or a larger count: a stable sort.
RECURSIVE InsertByCount(_, _)
InsertByCount(seq, p) ==
  IF seq = <<>> THEN <<p>>
  ELSE IF seq[1][2] >= p[2] THEN <<seq[1]>> \o InsertByCount(Tail(seq), p)
       ELSE <<p>> \o seq

RECURSIVE SortByCount(_, _)
SortByCount(pairs, acc) ==
  IF pairs = <<>> THEN acc
  ELSE SortByCount(Tail(pairs), InsertByCount(acc, pairs[1]))

\* Series.value_counts(): <<value, count>> for every value of the column, most
\* frequent first (equal counts in order of first appearance).  The columns
\* it is applied to, arrival_month and market_segment, have no missing value
\* in the input tables.
ValueCounts(store, rows, col) ==
  LET u == Unique(store, rows, col)
  IN  SortByCount([k \in 1..Len(u) |-> <<u[k], Count(store, rows, col, u[k])>>],
                  <<>>)

RECURSIVE InsertByIndex(_, _)
InsertByIndex(seq, p) ==
  IF seq = <<>> THEN <<p>>
  ELSE IF seq[1][1] <= p[1] THEN <<seq[1]>> \o InsertByIndex(Tail(seq), p)
       ELSE <<p>> \o seq

RECURSIVE SortIndexFrom(_, _)
SortIndexFrom(pairs, acc) ==
  IF pairs = <<>> THEN acc
  ELSE SortIndexFrom(Tail(pairs), InsertByIndex(acc, pairs[1]))

\* Series.sort_index(): the pairs by value (the index), ascending.
SortIndex(pairs) == SortIndexFrom(pairs, <<>>)

(***************************************************************************)
(* The script, top to bottom.                                              *)
(***************************************************************************)
\* ReadCsv, were line 115 to overwrite the loaded table (df = df[...]) and the
\* next run to start from what the last one left.
ReadCsvStale ==
  IF err = "none" /\ df_box # {}
  THEN LET RECURSIVE Keep(_)
           Keep(i) == IF i > Len(df) THEN <<>>
                      ELSE (IF i \in df_box THEN <<df[i]>> ELSE <<>>) \o Keep(i + 1)
       IN  Keep(1)
  ELSE df

\* Line 7: every run reads the same file again.
ReadCsv == df

\* Lines 20-23: groupby(['country', 'hotel']) drops the rows without a
\* country; the pivot has one column per hotel that is left.
PivotColumns(store) ==
  {store[i].hotel : i \in {j \in DOMAIN store : store[j].country # NaN}}

\* Line 24: df_pivot['City Hotel'] + df_pivot['Resort Hotel'] raises KeyError
\* when the pivot lacks one of the two columns.
PivotRaises(store) == ~(Hotels \subseteq PivotColumns(store))

\* Total, with the second summand forgotten.
TotalCityOnly(city, resort) == city

\* Line 24: the total column.
Total(city, resort) == city + resort

\* Lines 20-24: one row per country, its count per hotel (fillna(0) where a
\* pair has no booking) and the total.
DfPivot(store) ==
  LET rows == {i \in DOMAIN store : store[i].country # NaN}
      n(c, h) == Cardinality({i \in rows : store[i].country = c
                                             /\ store[i].hotel = h})
  IN  {[country |-> c, City |-> n(c, CityHotel), Resort |-> n(c, ResortHotel),
        total |-> Total(n(c, CityHotel), n(c, ResortHotel))]
       : c \in {store[i].country : i \in rows}}

\* Lines 27-29: the slider's default value, the months' minimum and maximum.
FullRange(store) ==
  LET months == {store[i].arrival_month : i \in DOMAIN store}
  IN  <<Min(months), Max(months)>>

\* The values the slider can return.
SliderValues(store) ==
  LET full == FullRange(store)
  IN  {r \in (full[1]..full[2]) \X (full[1]..full[2]) : r[1] <= r[2]}

\* MonthMask with the lower end of the range excluded.
MonthMaskStrict(store, dr) ==
  {i \in DOMAIN store : /\ store[i].arrival_month > dr[1]
                        /\ store[i].arrival_month <= dr[2]}

\* Line 32.
MonthMask(store, dr) ==
  {i \in DOMAIN store : /\ store[i].arrival_month >= dr[1]
                        /\ store[i].arrival_month <= dr[2]}

\* Line 35.
CountryOptions(store, rows) == <<All>> \o Unique(store, rows, "country")

\* A selectbox keeps its value from run to run while its option list is the
\* same; a different list makes it a new widget showing its first option.
Selectbox(prevOptions, prevValue, options) ==
  IF options = prevOptions THEN prevValue ELSE options[1]

\* Lines 41-42.
FilterCountry(store, rows, sel) ==
  IF sel # All THEN {i \in rows : Eq(store[i].country, sel)} ELSE rows

\* Line 45.
HotelOptions(store, rows) == <<All>> \o Unique(store, rows, "hotel")

\* Lines 48-49.
FilterHotel(store, rows, sel) ==
  IF sel # All THEN {i \in rows : Eq(store[i].hotel, sel)} ELSE rows

\* Line 56: number_input(min_value=5, max_value=n, value=5) raises when its
\* value exceeds max_value.
NumberInputRaises(n) == MinRows > n

\* GuestsByMonth without sort_index().
GuestsByMonthUnsorted(store, rows, h) ==
  ValueCounts(store, {i \in rows : store[i].hotel = h}, "arrival_month")

\* Lines 62-67: value_counts().sort_index() of one hotel's arrival months.
GuestsByMonth(store, rows, h) ==
  SortIndex(ValueCounts(store, {i \in rows : store[i].hotel = h},
                        "arrival_month"))

\* Line 78.
Canceled(store, rows) == {i \in rows : store[i].is_canceled = 1}

\* Lines 91-94: the first column assigned to the empty frame gives it its
\* index; every later column is aligned to that index (NaN where the column
\* has no entry, entries outside the index dropped).
TempIndex(store, rows) ==
  LET hs == Unique(store, rows, "hotel")
  IN  IF hs = <<>> THEN {}
      ELSE {p[1] : p \in Range(ValueCounts(store,
                     {i \in rows : store[i].hotel = hs[1]}, "market_segment"))}

\* Lines 91-103: the melted frame, as its set of rows.
TempMelt(store, rows) ==
  LET hs == Range(Unique(store, rows, "hotel"))
      n(s, h) == Cardinality({i \in rows : store[i].hotel = h
                                             /\ store[i].market_segment = s})
  IN  {[market_segment |-> s, hotel |-> h,
        guests |-> IF n(s, h) > 0 THEN n(s, h) ELSE NaNCount]
       : s \in TempIndex(store, rows), h \in hs}

\* NotCanceled with the selection left out.
KeepAll(store, rows) == rows

\* Line 115.
NotCanceled(store, rows) == {i \in rows : store[i].is_canceled = 0}

\* One run of the script on `store`, the slider at dr, the selectboxes last
\* rendered with prevC/prevH and holding wantC/wantH, the checkbox at ov.
Script(store, dr, prevC, wantC, prevH, wantH, ov) ==
  IF PivotRaises(store)
  THEN [err |-> "KeyError", date_range |-> <<>>, country_options |-> <<>>,
        selected_country |-> All, hotel_options |-> <<>>, hotel_type |-> All,
        df_pivot |-> {}, df_filtered |-> {}, resort_guests |-> <<>>,
        city_guests |-> <<>>, canceled |-> {}, temp_melt |-> {}, df_box |-> {}]
  ELSE
    LET inRange == MonthMask(store, dr)
        copts == CountryOptions(store, inRange)
        selC == Selectbox(prevC, wantC, copts)
        byCountry == FilterCountry(store, inRange, selC)
        hopts == HotelOptions(store, byCountry)
        selH == Selectbox(prevH, wantH, hopts)
        view == FilterHotel(store, byCountry, selH)
        head == [date_range |-> dr, country_options |-> copts,
                 selected_country |-> selC, hotel_options |-> hopts,
                 hotel_type |-> selH, df_pivot |-> DfPivot(store),
                 df_filtered |-> view]
    IN  IF ov /\ NumberInputRaises(Cardinality(view))
        THEN head @@ [err |-> "StreamlitAPIException", resort_guests |-> <<>>,
                      city_guests |-> <<>>, canceled |-> {}, temp_melt |-> {},
                      df_box |-> {}]
        ELSE head @@ [err |-> "none",
                      resort_guests |-> GuestsByMonth(store, view, ResortHotel),
                      city_guests |-> GuestsByMonth(store, view, CityHotel),
                      canceled |-> Canceled(store, view),
                      temp_melt |-> TempMelt(store, view),
                      df_box |-> NotCanceled(store, view)]

\* The state a run leaves.
Assign(store, ov, r) ==
  /\ df' = store
  /\ show_overview' = ov
  /\ date_range' = r.date_range
  /\ country_options' = r.country_options
  /\ selected_country' = r.selected_country
  /\ hotel_options' = r.hotel_options
  /\ hotel_type' = r.hotel_type
  /\ df_pivot' = r.df_pivot
  /\ df_filtered' = r.df_filtered
  /\ resort_guests' = r.resort_guests
  /\ city_guests' = r.city_guests
  /\ canceled' = r.canceled
  /\ temp_melt' = r.temp_melt
  /\ df_box' = r.df_box
  /\ err' = r.err

\* The first run: every widget at its default (full range, 'All', 'All',
\* checkbox ticked).
Init ==
  \E store \in Stores :
    LET r == Script(store, IF PivotRaises(store) THEN <<>> ELSE FullRange(store),
                    <<>>, All, <<>>, All, TRUE)
    IN  /\ df = store
        /\ show_overview = TRUE
        /\ date_range = r.date_range
        /\ country_options = r.country_options
        /\ selected_country = r.selected_country
        /\ hotel_options = r.hotel_options
        /\ hotel_type = r.hotel_type
        /\ df_pivot = r.df_pivot
        /\ df_filtered = r.df_filtered
        /\ resort_guests = r.resort_guests
        /\ city_guests = r.city_guests
        /\ canceled = r.canceled
        /\ temp_melt = r.temp_melt
        /\ df_box = r.df_box
        /\ err = r.err

\* A run that raised KeyError at line 24 rendered no widget.
Rendered == err # "KeyError"

\* Lines 27-29: the user moves the slider; the script runs again.
MoveSlider ==
  /\ Rendered
  /\ \E dr \in SliderValues(df) :
       /\ dr # date_range
       /\ Assign(ReadCsv, show_overview,
                 Script(ReadCsv, dr, country_options, selected_country,
                        hotel_options, hotel_type, show_overview))

\* Line 36: the user picks a country option.
SelectCountry ==
  /\ Rendered
  /\ \E k \in 1..Len(country_options) :
       /\ country_options[k] # selected_country
       /\ Assign(ReadCsv, show_overview,
                 Script(ReadCsv, date_range, country_options,
                        country_options[k], hotel_options, hotel_type,
                        show_overview))

\* Line 45: the user picks a hotel option.
SelectHotelType ==
  /\ Rendered
  /\ \E k \in 1..Len(hotel_options) :
       /\ hotel_options[k] # hotel_type
       /\ Assign(ReadCsv, show_overview,
                 Script(ReadCsv, date_range, country_options, selected_country,
                        hotel_options, hotel_options[k], show_overview))

\* Line 52: the user ticks or unticks 'Show Data Overview'.
ToggleOverview ==
  /\ Rendered
  /\ Assign(ReadCsv, ~show_overview,
            Script(ReadCsv, date_range, country_options, selected_country,
                   hotel_options, hotel_type, ~show_overview))

Next == MoveSlider \/ SelectCountry \/ SelectHotelType \/ ToggleOverview

Spec == Init /\ [][Next]_vars

(***************************************************************************)
(* Properties.                                                             *)
(***************************************************************************)
\* The row is within the slider's range.
InRange(i) ==
  df[i].arrival_month >= date_range[1] /\ df[i].arrival_month <= date_range[2]

\* The row's column holds the selection (the same value, missing included),
\* or the selection is 'All'.
Selected(i, col, sel) == sel = All \/ df[i][col] = sel

HasCountry(rows) == {i \in rows : df[i].country # NaN}

RECURSIVE SumTotal(_)
SumTotal(rows) ==
  IF rows = {} THEN 0
  ELSE LET r == CHOOSE x \in rows : TRUE IN r.total + SumTotal(rows \ {r})

RECURSIVE SumCounts(_)
SumCounts(pairs) ==
  IF pairs = <<>> THEN 0 ELSE pairs[1][2] + SumCounts(Tail(pairs))

\* The run reached the end of the script.
Completed == err = "none"

\* C1, as stated: a row is in the filtered view iff it is within the month
\* range, has the selected country (or 'All'), the selected hotel (or 'All')
\* and is not canceled unless include_canceled, whatever include_canceled is.
C1_FourPredicates ==
  Rendered =>
    \A include_canceled \in BOOLEAN : \A i \in DOMAIN df :
      i \in df_filtered <=>
        /\ InRange(i)
        /\ Selected(i, "country", selected_country)
        /\ Selected(i, "hotel", hotel_type)
        /\ (include_canceled \/ df[i].is_canceled = 0)

\* C1, amended: a row is in the filtered view iff it is within the month
\* range, has the selected country (or 'All'; a missing country equals no
\* selection) and the selected hotel (or 'All').  Cancellation is no
\* predicate: the view's canceled rows are what the cancellation chart is
\* computed from.
C1_ThreePredicates ==
  Rendered =>
    /\ df_filtered \subseteq DOMAIN df
    /\ \A i \in DOMAIN df :
         i \in df_filtered <=>
           /\ InRange(i)
           /\ (selected_country = All
                 \/ (df[i].country # NaN /\ df[i].country = selected_country))
           /\ Selected(i, "hotel", hotel_type)
    /\ (Completed =>
          canceled = {i \in df_filtered : df[i].is_canceled = 1})

\* C1's case: all three filters narrowed, a canceled row still in the view.
C1_Witness ==
  /\ Completed
  /\ date_range # FullRange(df)
  /\ selected_country # All
  /\ hotel_type # All
  /\ canceled # {}
  /\ \E i \in DOMAIN df \ df_filtered : InRange(i) /\ df[i].country = NaN

\* C2, as stated: the totals of the geographic rows add up to the number of
\* rows of the filtered view that have a country.
C2_GeographicFiltered ==
  Rendered => SumTotal(df_pivot) = Cardinality(HasCountry(df_filtered))

\* C2, amended: the totals of the geographic rows add up to the number of
\* rows of the whole table that have a country, whatever the filters are.
C2_GeographicWholeTable ==
  Rendered => SumTotal(df_pivot) = Cardinality(HasCountry(DOMAIN df))

\* C2's case: the filters have removed rows that have a country.
C2_Witness ==
  /\ Completed
  /\ date_range # FullRange(df)
  /\ Cardinality(HasCountry(df_filtered)) < Cardinality(HasCountry(DOMAIN df))
  /\ \E r \in df_pivot : r.City > 0 /\ r.Resort > 0

\* C3: the market-segment output has exactly one row for every segment of
\* the filtered view and every hotel of the filtered view, holding the number
\* of the view's rows of that segment and hotel (0 when there is none).
C3_ZeroFill ==
  Completed =>
    temp_melt =
      {[market_segment |-> s, hotel |-> h,
        guests |-> Cardinality({i \in df_filtered :
                                  df[i].market_segment = s /\ df[i].hotel = h})]
       : s \in {df[i].market_segment : i \in df_filtered},
         h \in {df[i].hotel : i \in df_filtered}}

\* C4: the rows the price chart is computed from are the filtered view's
\* rows that are not canceled, all of them; the monthly series and the
\* cancellation chart are computed from the view with its canceled rows.
C4_PriceInput ==
  Completed =>
    /\ \A i \in df_box : df[i].is_canceled # 1
    /\ \A i \in df_filtered : df[i].is_canceled = 0 => i \in df_box
    /\ df_box \subseteq df_filtered
    /\ canceled = {i \in df_filtered : df[i].is_canceled = 1}
    /\ SumCounts(resort_guests) + SumCounts(city_guests)
         = Cardinality(df_filtered)

\* C4's case: the view holds canceled rows and rows that are not.
C4_Witness == Completed /\ canceled # {} /\ df_box # {}

\* C5: on an empty filtered view the run reaches its end and every output is
\* empty.
C5_EmptyView ==
  Rendered /\ df_filtered = {} =>
    /\ Completed
    /\ resort_guests = <<>> /\ city_guests = <<>>
    /\ canceled = {} /\ temp_melt = {} /\ df_box = {}
    /\ df_pivot = {}

\* C6: the geographic output has exactly one row per country of the table,
\* with the number of the country's rows per hotel and their sum, which is
\* at least 1; rows without a country are in no row.
C6_Geographic ==
  LET n(c, h) == Cardinality({i \in DOMAIN df :
                                df[i].country = c /\ df[i].hotel = h})
  IN  /\ err # "KeyError"
      /\ df_pivot =
           {[country |-> c, City |-> n(c, CityHotel),
             Resort |-> n(c, ResortHotel),
             total |-> n(c, CityHotel) + n(c, ResortHotel)]
            : c \in {df[i].country : i \in HasCountry(DOMAIN df)}}
      /\ \A r \in df_pivot : r.total >= 1

Outputs ==
  <<df_pivot, df_filtered, resort_guests, city_guests, canceled, temp_melt,
    df_box, country_options, hotel_options>>

C9_MonthlySeries ==
  Completed =>
    \A h \in Hotels :
      LET s == IF h = ResortHotel THEN resort_guests ELSE city_guests
          of(m) == {i \in df_filtered :
                      df[i].hotel = h /\ df[i].arrival_month = m}
      IN  /\ \A k \in 1..(Len(s) - 1) : s[k][1] < s[k + 1][1]
          /\ {s[k][1] : k \in 1..Len(s)} = {m \in 1..MaxMonth : of(m) # {}}
          /\ \A k \in 1..Len(s) :
               /\ s[k][2] = Cardinality(of(s[k][1]))
               /\ s[k][2] >= 1
               /\ s[k][1] >= date_range[1] /\ s[k][1] <= date_range[2]

\* C9's case: a hotel's rows arrive in two months, the later month first in
\* the table, with a month between them in which none arrives.
C9_Witness ==
  /\ Completed
  /\ Len(city_guests) = 2
  /\ city_guests[2][1] > city_guests[1][1] + 1
  /\ \E i, j \in df_filtered :
       /\ i < j /\ df[i].hotel = CityHotel /\ df[j].hotel = CityHotel
       /\ df[i].arrival_month > df[j].arrival_month
       /\ \A k \in df_filtered : k >= i

\* C10: the country options are 'All' and the countries of the rows within
\* the month range, the hotel options 'All' and the hotels of the rows left
\* by the country filter; with an option other than 'All' chosen, the
\* filtered view is not empty and holds exactly the rows that option came
\* from.
C10_Options ==
  Rendered =>
    LET inRange == {i \in DOMAIN df : InRange(i)}
        left == {i \in inRange : selected_country = All
                                   \/ Eq(df[i].country, selected_country)}
        from == {i \in inRange : Selected(i, "country", selected_country)}
    IN  /\ Range(country_options) = {All} \cup {df[i].country : i \in inRange}
        /\ Range(hotel_options) = {All} \cup {df[i].hotel : i \in left}
        /\ selected_country \in Range(country_options)
        /\ hotel_type \in Range(hotel_options)
        /\ (selected_country # All \/ hotel_type # All) =>
             /\ df_filtered # {}
             /\ df_filtered = {i \in from : Selected(i, "hotel", hotel_type)}

====
